---- MODULE Spec2Model ----
(***************************************************************************)
(* Photo album back end: the ingestion handler (index-photos/index.py)     *)
(* and the search handler (search-photos/lambda_function.py).              *)
(*                                                                         *)
(* Python strings are modelled as sequences of one-character strings, so   *)
(* that lower(), strip(), split(), quote() and unquote_plus() are computed *)
(* character by character as the library computes them.                    *)
(***************************************************************************)
EXTENDS Integers, Sequences, FiniteSets, TLC

VARIABLES
    index,      \* the remote index: request path of a document -> document
    now,        \* the wall clock read by datetime.utcnow()
    h,          \* ingestion handler invocations: invocation -> frame
    log,        \* every upsert the ingestion handlers attempted, in order
    s           \* the search handler invocation: its frame, with the calls it
                \* made (calls), the terms it sent (terms), the branch that
                \* produced its labels (tier) and how its index call ended
                \* (searched)

vars == <<index, now, h, log, s>>

-----------------------------------------------------------------------------
(* Bounds of the model.                                                    *)

MaxClock == 1          \* the clock takes the values 0..MaxClock
MaxRecords == 2        \* records in one ingestion event
MaxDetect == 2         \* labels in one detector response
MaxHeaderPieces == 3   \* pieces concatenated into a customlabels header
MaxQueryPieces == 3    \* pieces concatenated into a query text
MaxInterpretations == 2 \* interpretations in one Lex response
MaxHits == 2           \* hits in one search response
MaxKeyPieces == 2      \* pieces concatenated into the key of a storage event

-----------------------------------------------------------------------------
(* Strings.                                                                *)

\* The printable ASCII characters in code order, from code 32. The grave
\* accent (code 96) cannot be written in a TLA+ string: the name GRAVE holds
\* its place, and no input of the model contains it.
Ascii ==
    << " ", "!", "\"", "#", "$", "%", "&", "'", "(", ")", "*", "+", ",", "-",
       ".", "/", "0", "1", "2", "3", "4", "5", "6", "7", "8", "9", ":", ";",
       "<", "=", ">", "?", "@", "A", "B", "C", "D", "E", "F", "G", "H", "I",
       "J", "K", "L", "M", "N", "O", "P", "Q", "R", "S", "T", "U", "V", "W",
       "X", "Y", "Z", "[", "\\", "]", "^", "_", "GRAVE", "a", "b", "c", "d", "e",
       "f", "g", "h", "i", "j", "k", "l", "m", "n", "o", "p", "q", "r", "s",
       "t", "u", "v", "w", "x", "y", "z", "{", "|", "}", "~" >>

Chars == {Ascii[i] : i \in DOMAIN Ascii} \cup {"\t", "\n"}

\* ord(c)
CharCode ==
    [c \in Chars |->
        IF c = "\t" THEN 9
        ELSE IF c = "\n" THEN 10
        ELSE 31 + (CHOOSE i \in DOMAIN Ascii : Ascii[i] = c)]

\* chr(n) for a code of the alphabet; any other byte decodes to the
\* replacement character, written "?" here.
CharOf(n) ==
    IF n = 9 THEN "\t"
    ELSE IF n = 10 THEN "\n"
    ELSE IF n \in 32..126 THEN Ascii[n - 31]
    ELSE "?"

\* str.isspace() of one character
IsSpace(c) == c \in {" ", "\t", "\n"}

\* str.lower() of one character
LowerChar(c) ==
    IF CharCode[c] \in 65..90 THEN CharOf(CharCode[c] + 32) ELSE c

\* str.lower()
Lower(str) == [i \in DOMAIN str |-> LowerChar(str[i])]

\* str.strip(): leading and trailing whitespace removed
RECURSIVE LStrip(_)
LStrip(str) ==
    IF str # <<>> /\ IsSpace(Head(str)) THEN LStrip(Tail(str)) ELSE str

RECURSIVE RStrip(_)
RStrip(str) ==
    IF str # <<>> /\ IsSpace(str[Len(str)])
    THEN RStrip(SubSeq(str, 1, Len(str) - 1))
    ELSE str

Strip(str) == RStrip(LStrip(str))

\* str.split(sep) for a one-character separator: empty fields are kept
RECURSIVE SplitOn(_, _)
SplitOn(str, sep) ==
    IF \E i \in DOMAIN str : str[i] = sep
    THEN LET i == CHOOSE j \in DOMAIN str :
                      str[j] = sep /\ \A k \in 1..(j - 1) : str[k] # sep
         IN  <<SubSeq(str, 1, i - 1)>> \o SplitOn(SubSeq(str, i + 1, Len(str)), sep)
    ELSE <<str>>

\* str.split() without a separator: runs of whitespace separate, no empty
\* token is produced
RECURSIVE SplitWhitespace(_)
SplitWhitespace(str) ==
    LET t == LStrip(str)
    IN  IF t = <<>> THEN <<>>
        ELSE IF \E i \in DOMAIN t : IsSpace(t[i])
        THEN LET i == CHOOSE j \in DOMAIN t :
                          IsSpace(t[j]) /\ \A k \in 1..(j - 1) : ~IsSpace(t[k])
             IN  <<SubSeq(t, 1, i - 1)>> \o SplitWhitespace(SubSeq(t, i, Len(t)))
        ELSE <<t>>

\* the order of str < str: lexicographic by character code
RECURSIVE StrLess(_, _)
StrLess(a, b) ==
    IF b = <<>> THEN FALSE
    ELSE IF a = <<>> THEN TRUE
    ELSE IF Head(a) # Head(b) THEN CharCode[Head(a)] < CharCode[Head(b)]
    ELSE StrLess(Tail(a), Tail(b))

\* set(list)
ToSet(seq) == {seq[i] : i \in DOMAIN seq}

\* sorted(set): ascending
RECURSIVE Sorted(_)
Sorted(S) ==
    IF S = {} THEN <<>>
    ELSE LET m == CHOOSE x \in S : \A y \in S \ {x} : StrLess(x, y)
         IN  <<m>> \o Sorted(S \ {m})

\* list(dict.fromkeys(list)): the first occurrence of each element, in order
RECURSIVE Dedup(_)
Dedup(seq) ==
    IF seq = <<>> THEN <<>>
    ELSE LET front == Dedup(SubSeq(seq, 1, Len(seq) - 1))
             last == seq[Len(seq)]
         IN  IF last \in ToSet(front) THEN front ELSE Append(front, last)

\* the concatenation of a sequence of strings
RECURSIVE Concat(_)
Concat(parts) ==
    IF parts = <<>> THEN <<>> ELSE Head(parts) \o Concat(Tail(parts))

\* the sequences of at most n elements of S
SeqsUpTo(S, n) == UNION {[1..k -> S] : k \in 0..n}

-----------------------------------------------------------------------------
(* urllib.parse                                                            *)

HexDigits == <<"0", "1", "2", "3", "4", "5", "6", "7", "8", "9",
               "A", "B", "C", "D", "E", "F">>

IsHex(c) == \E i \in DOMAIN HexDigits : HexDigits[i] = c \/ LowerChar(HexDigits[i]) = c

HexVal(c) ==
    (CHOOSE i \in DOMAIN HexDigits : HexDigits[i] = c \/ LowerChar(HexDigits[i]) = c) - 1

\* urllib.parse.unquote: every %XX with two hex digits is decoded, any other
\* '%' is kept as it is
RECURSIVE Unquote(_)
Unquote(str) ==
    IF str = <<>> THEN <<>>
    ELSE IF Head(str) = "%" /\ Len(str) >= 3 /\ IsHex(str[2]) /\ IsHex(str[3])
    THEN <<CharOf(16 * HexVal(str[2]) + HexVal(str[3]))>>
             \o Unquote(SubSeq(str, 4, Len(str)))
    ELSE <<Head(str)>> \o Unquote(Tail(str))

\* Mutant of UnquotePlus: plain unquote, which leaves '+' as it is.
UnquoteOnly(str) == Unquote(str)

\* urllib.parse.unquote_plus: '+' is read as a space, then unquote
UnquotePlus(str) ==
    Unquote([i \in DOMAIN str |-> IF str[i] = "+" THEN " " ELSE str[i]])

\* the characters quote() never encodes
AlwaysSafe(c) ==
    \/ CharCode[c] \in 65..90
    \/ CharCode[c] \in 97..122
    \/ CharCode[c] \in 48..57
    \/ c \in {"_", ".", "-", "~"}

\* urllib.parse.quote(str, safe): every character that is neither always
\* safe nor in safe becomes %XX, in upper-case hex
RECURSIVE Quote(_, _)
Quote(str, safe) ==
    IF str = <<>> THEN <<>>
    ELSE (IF AlwaysSafe(Head(str)) \/ Head(str) \in safe
          THEN <<Head(str)>>
          ELSE <<"%", HexDigits[(CharCode[Head(str)] \div 16) + 1],
                      HexDigits[(CharCode[Head(str)] % 16) + 1]>>)
         \o Quote(Tail(str), safe)

-----------------------------------------------------------------------------
(* The ingestion handler: index-photos/index.py                            *)

\* ES_INDEX = os.environ.get('ES_INDEX', 'photos')
ES_INDEX == <<"p", "h", "o", "t", "o", "s">>

\* The outcomes of rekognition.detect_labels: the call raises, or returns
\* the Name of each label it found.
DetectorNames ==
    { <<"D", "o", "g">>, <<"d", "o", "g">>, <<"P", "a", "r", "k">>, <<" ">>, <<>> }

DetectFailed == [ok |-> FALSE, names |-> <<>>]

DetectorOutcomes ==
    {DetectFailed} \cup [ok : {TRUE}, names : SeqsUpTo(DetectorNames, MaxDetect)]

\* The outcomes of s3.head_object: the call raises, or returns the metadata
\* of the object, with or without a customlabels entry.
HeaderPieces == { <<"S", "u", "n">>, <<"d", "o", "g">>, <<",">>, <<" ">> }

HeadFailed == [ok |-> FALSE, has |-> FALSE, raw |-> <<>>]

NoCustomLabels == [ok |-> TRUE, has |-> FALSE, raw |-> <<>>]

HeadOutcomes ==
    {HeadFailed, NoCustomLabels}
        \cup [ok : {TRUE}, has : {TRUE},
              raw : {Concat(ps) : ps \in SeqsUpTo(HeaderPieces, MaxHeaderPieces)}]

\* The outcomes the batch specification draws from: one label per source.
FewDetectorOutcomes == {DetectFailed, [ok |-> TRUE, names |-> << <<"D", "o", "g">> >>]}

FewHeadOutcomes == {HeadFailed, [ok |-> TRUE, has |-> TRUE, raw |-> <<"d", "o", "g">>]}

\* get_labels_from_rekognition: the lower-cased names, [] when the call raises
GetLabelsFromRekognition(det) ==
    IF det.ok THEN [i \in DOMAIN det.names |-> Lower(det.names[i])] ELSE <<>>

\* get_custom_labels: the comma-separated fields of the customlabels entry,
\* stripped and lower-cased, the empty ones dropped; [] when the entry is
\* missing or empty, or when the call raises
GetCustomLabels(head) ==
    IF ~head.ok \/ ~head.has \/ head.raw = <<>> THEN <<>>
    ELSE LET kept == SelectSeq(SplitOn(head.raw, ","), LAMBDA f : Strip(f) # <<>>)
         IN  [i \in DOMAIN kept |-> Lower(Strip(kept[i]))]

\* Mutant of AllLabels: the labels are kept in the order the sources gave
\* them.
AllLabelsUnsorted(auto, custom) == Dedup(auto \o custom)

\* Line 111: all_labels = sorted(set(auto_labels + custom_labels))
AllLabels(auto, custom) == Sorted(ToSet(auto \o custom))

\* doc = {"objectKey": ..., "bucket": ..., "createdTimestamp": ..., "labels": ...}
BuildDoc(bucket, key, timestamp, labels) ==
    [objectKey |-> key, bucket |-> bucket, createdTimestamp |-> timestamp,
     labels |-> labels]

\* doc_id = quote(key, safe=""); path = f"/{ES_INDEX}/_doc/{doc_id}"
DocPath(key) ==
    <<"/">> \o ES_INDEX \o <<"/", "_", "d", "o", "c", "/">> \o Quote(key, {})

\* Mutant of Upsert: the document is sent without its identifier, so the
\* index stores it beside the one it already holds.
UpsertAsNew(idx, path, body) ==
    LET fresh == IF path \in DOMAIN idx THEN path \o <<"-", "2">> ELSE path
    IN  [p \in DOMAIN idx \cup {fresh} |-> IF p = fresh THEN body ELSE idx[p]]

\* Mutant of Upsert: the document is merged into the one the index holds,
\* whose createdTimestamp is kept.
UpsertMerging(idx, path, body) ==
    [p \in DOMAIN idx \cup {path} |->
        IF p # path THEN idx[p]
        ELSE IF path \in DOMAIN idx
        THEN [body EXCEPT !.createdTimestamp = idx[path].createdTimestamp]
        ELSE body]

\* Mutant of Upsert: a document is only created, never replaced.
UpsertKeepingFirst(idx, path, body) ==
    [p \in DOMAIN idx \cup {path} |-> IF p \in DOMAIN idx THEN idx[p] ELSE body]

\* What a successful PUT of body at path does to the index: the document at
\* that path is created or replaced.
Upsert(idx, path, body) ==
    [p \in DOMAIN idx \cup {path} |-> IF p = path THEN body ELSE idx[p]]

\* The records of an event: a bucket name and the key as the storage event
\* delivers it (percent-encoded), or a record without the 's3' entry.
Bucket1 == <<"b", "1">>
Bucket2 == <<"b", "2">>

EventKeys ==
    { <<"a", "+", "b", ".", "j", "p", "g">>,
      <<"a", "%", "2", "0", "b", ".", "j", "p", "g">>,
      <<"c", "%", "2", "F", "d">> }

Malformed == [wf |-> FALSE, bucket |-> <<>>, key |-> <<>>]

Records ==
    {Malformed}
        \cup { [wf |-> TRUE, bucket |-> Bucket1, key |-> k] : k \in EventKeys }
        \cup { [wf |-> TRUE, bucket |-> Bucket2,
                key |-> <<"a", "+", "b", ".", "j", "p", "g">>] }

Invocations == {1, 2}

NoDoc == BuildDoc(<<>>, <<>>, -1, <<>>)

\* The frame of a handler invocation that is not running.
Off ==
    [pc |-> "off", event |-> <<>>, i |-> 1, auto_labels |-> <<>>,
     custom_labels |-> <<>>, detOk |-> TRUE, headOk |-> TRUE, doc |-> NoDoc,
     path |-> <<>>, statusCode |-> 0]

\* The frame of handler(event, context) on entry.
Entered(event) == [Off EXCEPT !.pc = "loop", !.event = event]

\* The search handler before any request.
Idle ==
    [pc |-> "off", event |-> <<>>, q |-> <<>>, labels |-> <<>>, tier |-> "none",
     lexOk |-> FALSE, resolved |-> <<>>, hits |-> <<>>,
     calls |-> <<>>, terms |-> <<>>, searched |-> "no", logs |-> <<>>,
     response |-> <<>>]

\* Mutant of BuildDocument: the label sources do not catch what their call
\* raises, so a failed call ends the invocation.
BuildDocumentUncaught(v, detectorOutcomes, headOutcomes) ==
    /\ h[v].pc = "loop"
    /\ h[v].i <= Len(h[v].event)
    /\ h[v].event[h[v].i].wf
    /\ \E det \in detectorOutcomes, head \in headOutcomes, t \in now..MaxClock :
         LET record == h[v].event[h[v].i]
             key == UnquotePlus(record.key)
             auto == GetLabelsFromRekognition(det)
             custom == GetCustomLabels(head)
         IN  /\ now' = t
             /\ h' = [h EXCEPT ![v] =
                        IF det.ok /\ head.ok
                        THEN [@ EXCEPT !.pc = "put",
                                       !.auto_labels = auto,
                                       !.custom_labels = custom,
                                       !.detOk = det.ok,
                                       !.headOk = head.ok,
                                       !.doc = BuildDoc(record.bucket, key, t,
                                                        AllLabels(auto, custom)),
                                       !.path = DocPath(key)]
                        ELSE [@ EXCEPT !.pc = "raised"]]
    /\ UNCHANGED <<index, log, s>>

\* Lines 100-125 for a well-formed record: the bucket and the decoded key are
\* read, both label sources are asked, the labels are fused, the clock is
\* read and the document and its path are built.
BuildDocument(v, detectorOutcomes, headOutcomes) ==
    /\ h[v].pc = "loop"
    /\ h[v].i <= Len(h[v].event)
    /\ h[v].event[h[v].i].wf
    /\ \E det \in detectorOutcomes, head \in headOutcomes, t \in now..MaxClock :
         LET record == h[v].event[h[v].i]
             bucket == record.bucket
             key == UnquotePlus(record.key)
             auto == GetLabelsFromRekognition(det)
             custom == GetCustomLabels(head)
         IN  /\ now' = t
             /\ h' = [h EXCEPT ![v] =
                        [@ EXCEPT !.pc = "put",
                                  !.auto_labels = auto,
                                  !.custom_labels = custom,
                                  !.detOk = det.ok,
                                  !.headOk = head.ok,
                                  !.doc = BuildDoc(bucket, key, t, AllLabels(auto, custom)),
                                  !.path = DocPath(key)]]
    /\ UNCHANGED <<index, log, s>>

\* Lines 101-102 for a record without the entries they read: the KeyError is
\* raised outside any try and ends the invocation.
BadRecord(v) ==
    /\ h[v].pc = "loop"
    /\ h[v].i <= Len(h[v].event)
    /\ ~h[v].event[h[v].i].wf
    /\ h' = [h EXCEPT ![v].pc = "raised"]
    /\ UNCHANGED <<index, now, log, s>>

\* Mutant of AfterPut: the exception of a failed PUT is not caught.
AfterPutRaising(frame, ok) ==
    IF ok
    THEN [frame EXCEPT !.pc = "loop", !.i = @ + 1, !.auto_labels = <<>>,
                       !.custom_labels = <<>>, !.detOk = TRUE, !.headOk = TRUE,
                       !.doc = NoDoc, !.path = <<>>]
    ELSE [frame EXCEPT !.pc = "raised"]

\* Mutant of AfterPut: after a PUT that raised the loop takes the same
\* record again.
AfterPutRepeating(frame, ok) ==
    [frame EXCEPT !.pc = "loop", !.i = IF ok THEN @ + 1 ELSE @,
                  !.auto_labels = <<>>, !.custom_labels = <<>>, !.detOk = TRUE,
                  !.headOk = TRUE, !.doc = NoDoc, !.path = <<>>]

\* The frame after the PUT of the current record: the loop goes on with the
\* next record whether the PUT succeeded or raised (lines 127-130). The
\* locals of the record are dead from here on.
AfterPut(frame, ok) ==
    [frame EXCEPT !.pc = "loop", !.i = @ + 1, !.auto_labels = <<>>,
                  !.custom_labels = <<>>, !.detOk = TRUE, !.headOk = TRUE,
                  !.doc = NoDoc, !.path = <<>>]

\* Lines 127-130: sign_and_send_es("PUT", path, doc) takes effect and returns,
\* or raises without effect; the exception is logged.
Put(v) ==
    /\ h[v].pc = "put"
    /\ \E ok \in BOOLEAN :
         /\ index' = IF ok THEN Upsert(index, h[v].path, h[v].doc) ELSE index
         /\ log' = Append(log, [inv |-> v, rec |-> h[v].i, path |-> h[v].path,
                                doc |-> h[v].doc, detOk |-> h[v].detOk,
                                headOk |-> h[v].headOk, ok |-> ok])
         /\ h' = [h EXCEPT ![v] = AfterPut(@, ok)]
    /\ UNCHANGED <<now, s>>

\* Lines 132-135: after the last record the handler returns status 200.
Return(v) ==
    /\ h[v].pc = "loop"
    /\ h[v].i > Len(h[v].event)
    /\ h' = [h EXCEPT ![v].pc = "done", ![v].statusCode = 200]
    /\ UNCHANGED <<index, now, log, s>>

EmptyIndex == [p \in {} |-> NoDoc]

\* One invocation with a batch of records; each source yields one label.
InitIngest ==
    /\ index = EmptyIndex
    /\ now = 0
    /\ log = <<>>
    /\ s = Idle
    /\ \E event \in SeqsUpTo(Records, MaxRecords) :
         h = [v \in Invocations |-> IF v = 1 THEN Entered(event) ELSE Off]

NextIngest ==
    \E v \in Invocations :
        \/ BuildDocument(v, FewDetectorOutcomes, FewHeadOutcomes)
        \/ BadRecord(v)
        \/ Put(v)
        \/ Return(v)

SpecIngest == InitIngest /\ [][NextIngest]_vars

\* The records of one object: the same key in each of its encodings.
PhotoKey == <<"a", " ", "b", ".", "j", "p", "g">>

SameKeyRecords == {r \in Records : r.wf /\ UnquotePlus(r.key) = PhotoKey}

\* Two invocations at once, each for one storage event of the same key.
InitConcurrent ==
    /\ index = EmptyIndex
    /\ now = 0
    /\ log = <<>>
    /\ s = Idle
    /\ \E r1 \in SameKeyRecords, r2 \in SameKeyRecords :
         h = [v \in Invocations |-> IF v = 1 THEN Entered(<<r1>>) ELSE Entered(<<r2>>)]

NextConcurrent ==
    \E v \in Invocations :
        \/ BuildDocument(v, FewDetectorOutcomes, FewHeadOutcomes)
        \/ Put(v)
        \/ Return(v)

SpecConcurrent == InitConcurrent /\ [][NextConcurrent]_vars

\* The keys of storage events: letters, the encodings of a space and of a
\* slash, a bare slash, and an encoded percent sign.
KeyPieces ==
    { <<"a">>, <<"+">>, <<"%", "2", "0">>, <<"/">>, <<"%", "2", "F">>,
      <<"%", "2", "5">>, <<"2", "F">> }

RawKeys == { Concat(ps) : ps \in SeqsUpTo(KeyPieces, MaxKeyPieces) }

\* One invocation with a batch of two records of one bucket: any key, then a
\* key of one piece. Both label sources fail, which the identity does not
\* depend on.
InitIdentity ==
    /\ index = EmptyIndex
    /\ now = 0
    /\ log = <<>>
    /\ s = Idle
    /\ \E k1 \in RawKeys, k2 \in KeyPieces :
         h = [v \in Invocations |->
                IF v = 1
                THEN Entered(<< [wf |-> TRUE, bucket |-> Bucket1, key |-> k1],
                                [wf |-> TRUE, bucket |-> Bucket1, key |-> k2] >>)
                ELSE Off]

NextIdentity ==
    \E v \in Invocations :
        \/ BuildDocument(v, {DetectFailed}, {HeadFailed})
        \/ Put(v)
        \/ Return(v)

SpecIdentity == InitIdentity /\ [][NextIdentity]_vars

\* One invocation with one record; the sources yield every outcome.
InitFusion ==
    /\ index = EmptyIndex
    /\ now = 0
    /\ log = <<>>
    /\ s = Idle
    /\ \E r \in Records \ {Malformed} :
         h = [v \in Invocations |-> IF v = 1 THEN Entered(<<r>>) ELSE Off]

NextFusion ==
    \E v \in Invocations :
        \/ BuildDocument(v, DetectorOutcomes, HeadOutcomes)
        \/ Put(v)
        \/ Return(v)

SpecFusion == InitFusion /\ [][NextFusion]_vars

-----------------------------------------------------------------------------
(* The search handler: search-photos/lambda_function.py                    *)

\* JSON values a request may carry as q: null, a string, or a number.
NoneVal == [t |-> "none", str |-> <<>>, n |-> 0]
StrVal(x) == [t |-> "str", str |-> x, n |-> 0]
IntVal(k) == [t |-> "int", str |-> <<>>, n |-> k]

\* bool(value)
Truthy(val) ==
    CASE val.t = "none" -> FALSE
      [] val.t = "str" -> val.str # <<>>
      [] val.t = "int" -> val.n # 0

\* The query texts: at most MaxQueryPieces pieces, one after the other.
QueryPieces ==
    { <<"s", "h", "o", "w">>, <<"i", "n">>, <<"D", "o", "g">>, <<"d", "o", "g">>,
      <<" ">> }

QueryTexts == {Concat(ps) : ps \in SeqsUpTo(QueryPieces, MaxQueryPieces)}

\* queryStringParameters: null, or a dictionary that may hold q and may hold
\* other parameters.
NoParams == [present |-> FALSE, others |-> FALSE, hasQ |-> FALSE, q |-> NoneVal]
ParamsWith(val) == [present |-> TRUE, others |-> FALSE, hasQ |-> TRUE, q |-> val]

Dog == <<"d", "o", "g">>

Events ==
    \* q given directly, of any JSON type
    [hasQ : {TRUE},
     q : {NoneVal, IntVal(0), IntVal(5)} \cup {StrVal(x) : x \in QueryTexts},
     qsp : {NoParams}]
    \* q given directly and in the query string
    \cup [hasQ : {TRUE}, q : {NoneVal, StrVal(<<>>), StrVal(<<"i", "n">>)},
          qsp : {ParamsWith(StrVal(Dog))}]
    \* q given in the query string only, or not at all
    \cup [hasQ : {FALSE}, q : {NoneVal},
          qsp : {NoParams,
                 [present |-> TRUE, others |-> FALSE, hasQ |-> FALSE, q |-> NoneVal],
                 [present |-> TRUE, others |-> TRUE, hasQ |-> FALSE, q |-> NoneVal],
                 [present |-> TRUE, others |-> TRUE, hasQ |-> TRUE, q |-> NoneVal]}
                \cup {ParamsWith(StrVal(x)) : x \in QueryTexts}]

\* Lines 102-106: q is event["q"] when the event has that key, else the q of
\* a non-empty queryStringParameters, else None.
QueryOf(event) ==
    IF event.hasQ THEN event.q
    ELSE IF event.qsp.present /\ (event.qsp.others \/ event.qsp.hasQ)
    THEN (IF event.qsp.hasQ THEN event.qsp.q ELSE NoneVal)
    ELSE NoneVal

\* Mutant of MissingQuery: the validation is left out.
MissingQueryNever(q) == FALSE

\* Line 108: if not q
MissingQuery(q) == ~Truthy(q)

\* The values of the slots of a Lex interpretation: null, a dictionary
\* without "value", a resolved value, or a "value" without a usable
\* interpretedValue.
NullSlot == [t |-> "null", v |-> <<>>]
UnresolvedSlot == [t |-> "novalue", v |-> <<>>]
Resolved(x) == [t |-> "value", v |-> x]
BrokenSlot == [t |-> "bad", v |-> <<>>]

\* The interpretations Lex may return: the slots of the intent in order, or
\* an intent whose "slots" is null.
Interpretations ==
    { [slotsOk |-> TRUE, slots |-> <<>>],
      [slotsOk |-> TRUE, slots |-> <<NullSlot, UnresolvedSlot>>],
      [slotsOk |-> TRUE, slots |-> <<Resolved(<<"D", "o", "g">>)>>],
      [slotsOk |-> TRUE,
       slots |-> <<Resolved(<<"c", "a", "t">>), NullSlot, Resolved(Dog)>>],
      [slotsOk |-> TRUE, slots |-> <<Resolved(<<"D", "o", "g">>), BrokenSlot>>],
      [slotsOk |-> FALSE, slots |-> <<>>] }

\* The outcomes of lex.recognize_text: the call raises, or returns its
\* interpretations.
LexFailed == [ok |-> FALSE, interpretations |-> <<>>]

LexOutcomes ==
    {LexFailed}
        \cup [ok : {TRUE}, interpretations : SeqsUpTo(Interpretations, MaxInterpretations)]

\* The slot values of a response, over its interpretations in the order
\* returned.
RECURSIVE SlotsOf(_)
SlotsOf(interps) ==
    IF interps = <<>> THEN <<>>
    ELSE Head(interps).slots \o SlotsOf(Tail(interps))

\* What Lex answered: the call returned a response every interpretation of
\* which has its slots, each value of which has its interpretedValue.
LexAnswered(lex) ==
    /\ lex.ok
    /\ \A i \in DOMAIN lex.interpretations : lex.interpretations[i].slotsOk
    /\ \A j \in DOMAIN SlotsOf(lex.interpretations) :
         SlotsOf(lex.interpretations)[j].t # "bad"

\* The interpretedValue of every slot of the response that has a value, as
\* Lex returned them.
ResolvedValues(lex) ==
    LET valued == SelectSeq(SlotsOf(lex.interpretations), LAMBDA slot : slot.t = "value")
    IN  [j \in DOMAIN valued |-> valued[j].v]

\* Lines 75-77 over the slots of one interpretation: the labels appended, or
\* the exception raised on the way.
RECURSIVE WalkSlots(_)
WalkSlots(slots) ==
    IF slots = <<>> THEN [raised |-> FALSE, labels |-> <<>>]
    ELSE LET rest == WalkSlots(Tail(slots))
             slot == Head(slots)
         IN  IF slot.t = "bad" THEN [raised |-> TRUE, labels |-> <<>>]
             ELSE IF slot.t = "value"
             THEN [rest EXCEPT !.labels = IF rest.raised THEN <<>>
                                          ELSE <<Lower(slot.v)>> \o @]
             ELSE rest

\* Lines 73-77 over the interpretations
RECURSIVE WalkInterpretations(_)
WalkInterpretations(interps) ==
    IF interps = <<>> THEN [raised |-> FALSE, labels |-> <<>>]
    ELSE LET first == IF Head(interps).slotsOk
                      THEN WalkSlots(Head(interps).slots)
                      ELSE [raised |-> TRUE, labels |-> <<>>]
             rest == WalkInterpretations(Tail(interps))
         IN  IF first.raised \/ rest.raised
             THEN [raised |-> TRUE, labels |-> <<>>]
             ELSE [raised |-> FALSE, labels |-> first.labels \o rest.labels]

\* stop = {"show", "me", "photos", "with", "and", "in"}
StopWords ==
    { <<"s", "h", "o", "w">>, <<"m", "e">>, <<"p", "h", "o", "t", "o", "s">>,
      <<"w", "i", "t", "h">>, <<"a", "n", "d">>, <<"i", "n">> }

\* tokens = query_lc.split(); [t for t in tokens if t not in stop]
Tokens(query) ==
    SelectSeq(SplitWhitespace(Lower(query)), LAMBDA tok : tok \notin StopWords)

\* The call raised, or the walk over its response did: the except branch runs.
LexError(lex) == ~lex.ok \/ WalkInterpretations(lex.interpretations).raised

\* Mutant of ExtractLabelsFromLex: line 85 returns the candidate list as it
\* is.
ExtractLabelsFromLexKeepingAll(query, lex) ==
    IF LexError(lex) THEN Tokens(query)
    ELSE LET labels == WalkInterpretations(lex.interpretations).labels
         IN  IF labels = <<>> THEN Dedup(Tokens(query)) ELSE labels

\* extract_labels_from_lex for a string: what it returns given the outcome of
\* the Lex call. The except branch returns the tokens as they are (line 93);
\* the try branch removes duplicates (line 85).
ExtractLabelsFromLex(query, lex) ==
    IF LexError(lex) THEN Tokens(query)
    ELSE LET labels == WalkInterpretations(lex.interpretations).labels
         IN  Dedup(IF labels = <<>> THEN Tokens(query) ELSE labels)

\* Which branch of extract_labels_from_lex produced the labels: the except
\* branch, the tokenizer after a response without a resolved slot, or the
\* slots of the response.
TierOf(lex) ==
    IF LexError(lex) THEN "error"
    ELSE IF WalkInterpretations(lex.interpretations).labels = <<>> THEN "tokens"
    ELSE "slots"

\* The documents a search response may carry as hits, and a hit without
\* "_source".
StoredDocs ==
    { BuildDoc(Bucket1, <<"a", " ", "b">>, 0, <<Dog>>),
      BuildDoc(Bucket2, <<"c", "/", "d">>, 1, <<>>) }

BrokenHit == [wf |-> FALSE, source |-> NoDoc]

Hits == {BrokenHit} \cup [wf : {TRUE}, source : StoredDocs]

\* The outcomes of sign_and_send_es("POST", ...): the call raises (signing,
\* transport, status, or a body that is not JSON), or returns the hits.
SearchFailed == [ok |-> FALSE, hits |-> <<>>]

SearchOutcomes == {SearchFailed} \cup [ok : {TRUE}, hits : SeqsUpTo(Hits, MaxHits)]

\* Mutant of UrlOf: the object key is put into the url as it is.
UrlOfUnencoded(bucket, object_key) ==
    <<"h", "t", "t", "p", "s", ":", "/", "/">> \o bucket
        \o <<".", "s", "3", ".", "a", "m", "a", "z", "o", "n", "a", "w", "s", ".",
             "c", "o", "m", "/">>
        \o object_key

\* f"https://{bucket}.s3.amazonaws.com/{urllib.parse.quote(object_key)}"
UrlOf(bucket, object_key) ==
    <<"h", "t", "t", "p", "s", ":", "/", "/">> \o bucket
        \o <<".", "s", "3", ".", "a", "m", "a", "z", "o", "n", "a", "w", "s", ".",
             "c", "o", "m", "/">>
        \o Quote(object_key, {"/"})

\* Lines 149-159: the result built from one hit
ResultOf(hit) ==
    [objectKey |-> hit.source.objectKey,
     bucket |-> hit.source.bucket,
     labels |-> hit.source.labels,
     url |-> UrlOf(hit.source.bucket, hit.source.objectKey)]

CorsHeaders == { <<"Access-Control-Allow-Origin", "*">> }

\* Lines 109-113
Response400 ==
    [statusCode |-> 400, body |-> [error |-> "Missing query parameter q"],
     headers |-> CorsHeaders]

\* Lines 119-123
Response200Empty ==
    [statusCode |-> 200, body |-> [results |-> <<>>], headers |-> CorsHeaders]

\* Lines 161-165
Response200(results) ==
    [statusCode |-> 200, body |-> [results |-> results], headers |-> CorsHeaders]

\* Mutant of Response500: the header is forgotten on the error path.
Response500Bare == [statusCode |-> 500, body |-> [results |-> <<>>], headers |-> {}]

\* Lines 169-173
Response500 ==
    [statusCode |-> 500, body |-> [results |-> <<>>], headers |-> CorsHeaders]

NoResponse == [statusCode |-> 0, body |-> [results |-> <<>>], headers |-> {}]

\* The frame of lambda_handler(event, context) on entry.
Received(event) ==
    [pc |-> "start", event |-> event, q |-> NoneVal, labels |-> <<>>,
     tier |-> "none", lexOk |-> FALSE, resolved |-> <<>>, hits |-> <<>>,
     calls |-> <<>>, terms |-> <<>>, searched |-> "no",
     logs |-> <<"EVENT">>, response |-> NoResponse]

\* Lines 108-113: without a query the handler answers 400.
BadRequest ==
    /\ s.pc = "start"
    /\ MissingQuery(QueryOf(s.event))
    /\ s' = [s EXCEPT !.pc = "done", !.q = QueryOf(s.event), !.response = Response400]
    /\ UNCHANGED <<index, now, h, log>>

\* Line 59 for a q that is no string: query.lower() raises outside the try
\* of extract_labels_from_lex, and nothing in lambda_handler catches it.
QueryNotString ==
    /\ s.pc = "start"
    /\ ~MissingQuery(QueryOf(s.event))
    /\ QueryOf(s.event).t # "str"
    /\ s' = [s EXCEPT !.pc = "raised", !.q = QueryOf(s.event)]
    /\ UNCHANGED <<index, now, h, log>>

\* Lines 115-116: extract_labels_from_lex(q) makes its one call to Lex and
\* returns the labels.
ExtractLabels ==
    /\ s.pc = "start"
    /\ ~MissingQuery(QueryOf(s.event))
    /\ QueryOf(s.event).t = "str"
    /\ \E lex \in LexOutcomes :
         s' = [s EXCEPT !.pc = "extracted",
                        !.q = QueryOf(s.event),
                        !.calls = Append(@, "lex"),
                        !.labels = ExtractLabelsFromLex(QueryOf(s.event).str, lex),
                        !.tier = TierOf(lex),
                        !.lexOk = LexAnswered(lex),
                        !.resolved = ResolvedValues(lex),
                        !.logs = @ \o (IF LexError(lex) THEN <<"Lex error">> ELSE <<>>)
                                   \o <<"Extracted labels">>]
    /\ UNCHANGED <<index, now, h, log>>

\* Mutant of NoLabels: the empty list is not told apart.
NoLabelsNever(labels) == FALSE

\* Line 118: if not labels
NoLabels(labels) == labels = <<>>

\* Lines 118-123: without labels the handler answers 200 with no results.
ShortCircuit ==
    /\ s.pc = "extracted"
    /\ NoLabels(s.labels)
    /\ s' = [s EXCEPT !.pc = "done", !.response = Response200Empty]
    /\ UNCHANGED <<index, now, h, log>>

\* Mutant of SearchResponse: the exception of the index call is not caught.
SearchResponseRaising(es) ==
    IF ~es.ok \/ \E i \in DOMAIN es.hits : ~es.hits[i].wf
    THEN [pc |-> "raised", response |-> NoResponse, logs |-> <<>>]
    ELSE [pc |-> "done",
          response |-> Response200([i \in DOMAIN es.hits |-> ResultOf(es.hits[i])]),
          logs |-> <<>>]

\* Lines 143-173: the answer to the outcome of the index call. Whatever is
\* raised by the call or while the hits are read is caught and answered 500.
SearchResponse(es) ==
    IF ~es.ok \/ \E i \in DOMAIN es.hits : ~es.hits[i].wf
    THEN [pc |-> "done", response |-> Response500, logs |-> <<"Search error">>]
    ELSE [pc |-> "done",
          response |-> Response200([i \in DOMAIN es.hits |-> ResultOf(es.hits[i])]),
          logs |-> <<>>]

\* Mutant of SearchCalls: a failed index call is made once more.
SearchCallsRetrying(calls, es) ==
    IF es.ok THEN Append(calls, "es") ELSE calls \o <<"es", "es">>

\* Line 144: the one call to the index.
SearchCalls(calls, es) == Append(calls, "es")

\* Lines 128-173: the terms query on the labels is sent to the index and its
\* outcome answered.
Search ==
    /\ s.pc = "extracted"
    /\ ~NoLabels(s.labels)
    /\ \E es \in SearchOutcomes :
         s' = [s EXCEPT !.pc = SearchResponse(es).pc,
                        !.calls = SearchCalls(@, es),
                        !.terms = Append(@, s.labels),
                        !.searched = IF es.ok THEN "returned" ELSE "raised",
                        !.hits = es.hits,
                        !.logs = @ \o <<"USING KEYWORD QUERY">> \o SearchResponse(es).logs,
                        !.response = SearchResponse(es).response]
    /\ UNCHANGED <<index, now, h, log>>

InitQuery ==
    /\ index = EmptyIndex
    /\ now = 0
    /\ log = <<>>
    /\ h = [v \in Invocations |-> Off]
    /\ \E event \in Events : s = Received(event)

NextQuery == BadRequest \/ QueryNotString \/ ExtractLabels \/ ShortCircuit \/ Search

SpecQuery == InitQuery /\ [][NextQuery]_vars

\* One invocation of either handler.
Init == InitIngest \/ InitQuery

Next == NextIngest \/ NextQuery

Spec == Init /\ [][Next]_vars

-----------------------------------------------------------------------------
(* Properties of the ingestion handler.                                    *)

Ended(v) == h[v].pc \in {"done", "raised"}

\* The upserts of the log that took effect on path, oldest first.
Applied(path) == SelectSeq(log, LAMBDA e : e.ok /\ e.path = path)

\* The upsert of record j of invocation v has been attempted.
Attempted(v, j) == \E n \in DOMAIN log : log[n].inv = v /\ log[n].rec = j

\* C1: batch isolation. When an invocation has ended on a batch of
\* well-formed records, the PUT of every record of the batch has been issued,
\* whatever detector calls and upserts of other records failed; and every
\* upsert that succeeded took effect: the index holds a document at its
\* path, the one of the latest successful upsert to that path.
C1_BatchIsolation ==
    /\ \A v \in Invocations :
         (Ended(v) /\ \A j \in DOMAIN h[v].event : h[v].event[j].wf)
            => \A j \in DOMAIN h[v].event : Attempted(v, j)
    /\ \A n \in DOMAIN log :
         log[n].ok =>
            /\ log[n].path \in DOMAIN index
            /\ index[log[n].path] =
                  Applied(log[n].path)[Len(Applied(log[n].path))].doc

\* C1, its case: the detector call and the upsert of the first record
\* failed, and the second record is in the index.
C1_Witness_FailedUpsert ==
    /\ h[1].pc = "done"
    /\ Len(log) = 2
    /\ ~log[1].detOk
    /\ ~log[1].ok
    /\ log[2].ok
    /\ log[2].path \in DOMAIN index
    /\ index[log[2].path] = log[2].doc

LowerCase(str) == Lower(str) = str

Blank(str) == Strip(str) = <<>>

NoDuplicates(seq) == \A i, j \in DOMAIN seq : seq[i] = seq[j] => i = j

\* C2: the labels of every document sent to the index contain no duplicate,
\* no empty or whitespace-only string, and only lower-case strings.
C2_LabelSetInvariant ==
    \A n \in DOMAIN log :
        /\ NoDuplicates(log[n].doc.labels)
        /\ \A i \in DOMAIN log[n].doc.labels :
             /\ ~Blank(log[n].doc.labels[i])
             /\ LowerCase(log[n].doc.labels[i])

\* The step is a successful upsert by v of a document whose bucket, key and
\* labels are those of the document the index already holds at that path.
ReIngest(v) ==
    /\ h[v].pc = "put"
    /\ h[v].path \in DOMAIN index
    /\ index[h[v].path].bucket = h[v].doc.bucket
    /\ index[h[v].path].objectKey = h[v].doc.objectKey
    /\ index[h[v].path].labels = h[v].doc.labels
    /\ Len(log') = Len(log) + 1
    /\ log'[Len(log')].inv = v
    /\ log'[Len(log')].ok

\* C3 as stated: ingesting the same (bucket, key) again with identical labels
\* leaves the content of the index as it was.
C3_ReIngestLeavesIndex ==
    [][\A v \in Invocations : ReIngest(v) => index' = index]_vars

\* C3 as amended: ingesting the same (bucket, key) again with identical
\* labels leaves the same document paths in the index and every document as
\* it was, except that the document of the re-ingested object carries the
\* createdTimestamp of the later ingestion.
C3_ReIngestUpToTimestamp ==
    [][\A v \in Invocations :
          ReIngest(v) =>
             index' = [index EXCEPT ![h[v].path].createdTimestamp =
                                         h[v].doc.createdTimestamp]]_vars

\* C3, its case: the same object was ingested twice with the same labels,
\* at different times, and the index holds one document for it.
C3_Witness_IngestedTwice ==
    /\ Len(log) = 2
    /\ log[1].ok /\ log[2].ok
    /\ log[1].path = log[2].path
    /\ log[1].doc.bucket = log[2].doc.bucket
    /\ log[1].doc.objectKey = log[2].doc.objectKey
    /\ log[1].doc.labels = log[2].doc.labels
    /\ log[1].doc.createdTimestamp < log[2].doc.createdTimestamp
    /\ DOMAIN index = {log[1].path}

-----------------------------------------------------------------------------
(* Properties of the search handler.                                       *)

Extracted == s.pc \in {"extracted", "done", "raised"} /\ s.tier # "none"

\* C4: query fallback. When the Lex call fails or yields no usable slot, the
\* extracted list is the lower-cased whitespace-split tokens of the query
\* without the stop words, in order, each token once (first occurrence).
C4_FallbackIsDedupedTokens ==
    (Extracted /\ s.tier \in {"error", "tokens"})
        => s.labels = Dedup(Tokens(s.q.str))

\* C5: empty-query short-circuit. When extraction yields no label the handler
\* ends with status 200 and no results without calling the index; no terms
\* filter without terms is ever sent.
C5_EmptyShortCircuit ==
    /\ (Extracted /\ s.labels = <<>>) =>
          /\ "es" \notin ToSet(s.calls)
          /\ s.pc # "raised"
          /\ s.pc = "done" =>
                /\ s.response.statusCode = 200
                /\ s.response.body = [results |-> <<>>]
    /\ \A i \in DOMAIN s.terms : s.terms[i] # <<>>

\* C5, its case: a query of stop words only was answered.
C5_Witness_NoLabels ==
    /\ s.pc = "done"
    /\ s.tier = "tokens"
    /\ s.q.str # <<>>
    /\ s.labels = <<>>
    /\ s.response.statusCode = 200
    /\ s.calls = <<"lex">>

\* The request carries no query text: no q, a null q or an empty q, both as
\* a direct field and in the query string.
NoText(val) == val.t = "none" \/ (val.t = "str" /\ val.str = <<>>)

NoQueryText(event) ==
    /\ event.hasQ => NoText(event.q)
    /\ (event.qsp.present /\ event.qsp.hasQ) => NoText(event.qsp.q)

\* C6: a request without query text is answered 400 with the fixed error
\* body, and neither Lex nor the index is called.
C6_MissingQuery ==
    (s.pc \notin {"off", "start"} /\ NoQueryText(s.event)) =>
        /\ s.pc = "done"
        /\ s.response.statusCode = 400
        /\ s.response.body = [error |-> "Missing query parameter q"]
        /\ s.calls = <<>>

\* C6, its case: a request with other query-string parameters but no q was
\* answered.
C6_Witness_NoQ ==
    /\ s.pc = "done"
    /\ ~s.event.hasQ
    /\ s.event.qsp.present /\ s.event.qsp.others /\ ~s.event.qsp.hasQ
    /\ s.response.statusCode = 400

\* C7: when the index call of the search handler fails, the handler answers
\* 500 with no results and raises nothing.
C7_IndexFailureIs500 ==
    s.searched = "raised" =>
        /\ s.pc = "done"
        /\ s.response.statusCode = 500
        /\ s.response.body = [results |-> <<>>]

\* C7, its case: the index call failed and the handler answered.
C7_Witness_IndexFailed ==
    /\ s.searched = "raised"
    /\ s.calls = <<"lex", "es">>
    /\ s.response.statusCode = 500

\* C8: the search handler always ends with a response of status 400, 200 or
\* 500; no exception escapes it.
C8_NoExceptionEscapes ==
    /\ s.pc # "raised"
    /\ s.pc = "done" => s.response.statusCode \in {400, 200, 500}

\* C9: every response of the search handler carries the header
\* Access-Control-Allow-Origin: *.
C9_CorsOnEveryResponse ==
    s.pc = "done" => <<"Access-Control-Allow-Origin", "*">> \in s.response.headers

\* C9, its case: a response on the error path.
C9_Witness_ErrorResponse ==
    /\ s.pc = "done"
    /\ s.response.statusCode = 500
    /\ s.response.headers # {}

\* C10: the search handler calls Lex at most once and the index at most once,
\* the index only after Lex, and repeats no call that failed.
C10_OneCallEach == s.calls \in { <<>>, <<"lex">>, <<"lex", "es">> }

\* C10, its case: both calls were made and the index call failed.
C10_Witness_BothCalls ==
    /\ s.pc = "done"
    /\ s.calls = <<"lex", "es">>
    /\ s.searched = "raised"
    /\ s.tier = "error"

-----------------------------------------------------------------------------
(* Further properties of the ingestion handler.                            *)

\* C11: label-source degradation. A failed detector call leaves the auto
\* labels empty and a failed metadata read leaves the custom labels empty;
\* the record still reaches the upsert, no failure of a source ends the
\* invocation, and the labels of its document are the fused labels of the
\* sources that succeeded (none when both failed).
C11_SourcesDegradeToEmpty ==
    /\ \A v \in Invocations :
         /\ h[v].pc = "raised" =>
               (h[v].i <= Len(h[v].event) /\ ~h[v].event[h[v].i].wf)
         /\ h[v].pc = "put" =>
               /\ ~h[v].detOk => h[v].auto_labels = <<>>
               /\ ~h[v].headOk => h[v].custom_labels = <<>>
               /\ ToSet(h[v].doc.labels) =
                     (IF h[v].detOk THEN ToSet(h[v].auto_labels) ELSE {})
                        \cup (IF h[v].headOk THEN ToSet(h[v].custom_labels) ELSE {})
    /\ \A n \in DOMAIN log :
         (~log[n].detOk /\ ~log[n].headOk) => log[n].doc.labels = <<>>

\* C11, its case: the detector call failed, the metadata read succeeded, and
\* the record was indexed with the custom labels.
C11_Witness_DetectorFailed ==
    /\ Len(log) = 1
    /\ log[1].ok
    /\ ~log[1].detOk
    /\ log[1].headOk
    /\ Len(log[1].doc.labels) = 2
    /\ index[log[1].path].labels = log[1].doc.labels

-----------------------------------------------------------------------------
(* Further properties of the search handler.                               *)

\* The log records that tell a fallback from a query the slots resolved:
\* "Lex error" (line 88). Every other record of the handler is written for
\* both kinds of query, with the extracted labels as its only content.
TellsFallback(record) == record = "Lex error"

\* C12: observable degradation. Whenever the labels come from the tokenizer
\* fallback, after a failed Lex call or after a response without a usable
\* slot, the handler has written a log record that tells the fallback from
\* a query resolved by Lex.
C12_FallbackIsLogged ==
    (Extracted /\ s.tier \in {"error", "tokens"})
        => \E i \in DOMAIN s.logs : TellsFallback(s.logs[i])

-----------------------------------------------------------------------------
(* Properties of concurrent ingestion.                                     *)

\* The upserts of the log that took effect, oldest first.
AppliedUpserts == SelectSeq(log, LAMBDA e : e.ok)

\* C13: concurrent ingestion of one key. Under every interleaving of the
\* invocations the index holds nothing until an upsert succeeds, and from
\* then on exactly one document: the whole document of the upsert that
\* completed last.
C13_LastWriteWins ==
    IF AppliedUpserts = <<>> THEN index = EmptyIndex
    ELSE LET last == AppliedUpserts[Len(AppliedUpserts)]
         IN  /\ DOMAIN index = {last.path}
             /\ index[last.path] = last.doc

\* C13, its case: two invocations upserted the key; the one that built its
\* document later wrote first, and the index holds the document written
\* last.
C13_Witness_Overtaken ==
    /\ h[1].pc = "done" /\ h[2].pc = "done"
    /\ Len(log) = 2
    /\ log[1].ok /\ log[2].ok
    /\ log[1].inv # log[2].inv
    /\ log[2].doc.createdTimestamp < log[1].doc.createdTimestamp
    /\ log[2].doc.labels # log[1].doc.labels
    /\ index[log[2].path] = log[2].doc

-----------------------------------------------------------------------------
(* Error handling of the ingestion handler.                                *)

\* C14: no exception escapes the ingestion handler: whatever the records
\* contain and whichever calls fail, no invocation ends by raising, every
\* record of the batch is reached, and an invocation that ended returned
\* status 200.
C14_NoExceptionEscapes ==
    \A v \in Invocations :
        /\ h[v].pc # "raised"
        /\ Ended(v) => (h[v].statusCode = 200 /\ h[v].i = Len(h[v].event) + 1)

-----------------------------------------------------------------------------
(* Label extraction from the slots of the Lex response.                    *)

\* C15: the NLU tier. When Lex answered and its response has a slot with a
\* value, the extracted list is the lower-cased interpretedValues of the
\* slots that have one, over all interpretations in the order returned,
\* each once at its first occurrence; no token of the query is added.
C15_SlotLabels ==
    (Extracted /\ s.lexOk /\ s.resolved # <<>>)
        => s.labels = Dedup([j \in DOMAIN s.resolved |-> Lower(s.resolved[j])])

\* C15, its case: two interpretations resolve "Dog", "cat" and "dog", a slot
\* between them is null, and the query has a token that is no slot value.
C15_Witness_RepeatedSlot ==
    /\ Extracted
    /\ s.lexOk
    /\ s.q = StrVal(<<"s", "h", "o", "w", " ", "D", "o", "g">>)
    /\ s.resolved = << <<"D", "o", "g">>, <<"c", "a", "t">>, Dog >>
    /\ s.labels = << Dog, <<"c", "a", "t">> >>

-----------------------------------------------------------------------------
(* The results of a search.                                                *)

\* The index call returned, and every hit carries its stored fields.
SearchSucceeded ==
    /\ s.pc = "done"
    /\ s.searched = "returned"
    /\ \A i \in DOMAIN s.hits : s.hits[i].wf

StorageUrl(bucket, encodedKey) ==
    Concat(<< <<"h", "t", "t", "p", "s", ":", "/", "/">>, bucket,
              <<".", "s", "3", ".", "a", "m", "a", "z", "o", "n", "a", "w", "s">>,
              <<".", "c", "o", "m", "/">>, encodedKey >>)

\* C19: result mapping. On a successful index response the answer is 200
\* with one result per hit, in hit order; each result carries the objectKey,
\* bucket and labels of its hit unchanged and the url
\* https://{bucket}.s3.amazonaws.com/{percent-encoded objectKey}; a response
\* without hits is answered 200 with no results.
C19_ResultMapping ==
    SearchSucceeded =>
        /\ s.response.statusCode = 200
        /\ Len(s.response.body.results) = Len(s.hits)
        /\ s.hits = <<>> => s.response.body.results = <<>>
        /\ \A i \in DOMAIN s.hits :
             LET result == s.response.body.results[i]
                 stored == s.hits[i].source
             IN  /\ result.objectKey = stored.objectKey
                 /\ result.bucket = stored.bucket
                 /\ result.labels = stored.labels
                 /\ result.url = StorageUrl(stored.bucket, Quote(stored.objectKey, {"/"}))
                 /\ \A j \in DOMAIN result.url : result.url[j] # " "

\* C19, its case: two hits came back, the photo "c/d" before the photo
\* "a b", and the results are theirs in that order.
C19_Witness_TwoHits ==
    /\ SearchSucceeded
    /\ Len(s.hits) = 2
    /\ s.hits[1].source.objectKey = <<"c", "/", "d">>
    /\ s.hits[2].source.objectKey = <<"a", " ", "b">>
    /\ s.response.body.results[1].url = StorageUrl(Bucket2, <<"c", "/", "d">>)
    /\ s.response.body.results[2].url =
          StorageUrl(Bucket1, <<"a", "%", "2", "0", "b">>)
    /\ s.response.body.results[2].labels = <<Dog>>

-----------------------------------------------------------------------------
(* Fusion of the two label sources.                                        *)

Ascending(labels) ==
    \A i \in DOMAIN labels : \A j \in DOMAIN labels :
        i < j => StrLess(labels[i], labels[j])

\* C16: fusion. The labels of a built document are the union of the auto
\* labels and the custom labels, no more and no less, in ascending order
\* with no label twice; so they are the same whatever the order in which
\* either source returned its labels.
C16_FusionIsSortedUnion ==
    \A v \in Invocations :
        h[v].pc = "put" =>
            /\ ToSet(h[v].doc.labels) =
                  ToSet(h[v].auto_labels) \cup ToSet(h[v].custom_labels)
            /\ Ascending(h[v].doc.labels)

\* C16, its case: the detector returned "park" before "dog", the header gave
\* "sun" and "dog", and the document has the three labels in order.
C16_Witness_Unordered ==
    /\ h[1].pc = "put"
    /\ h[1].auto_labels = << <<"p", "a", "r", "k">>, Dog >>
    /\ h[1].custom_labels = << <<"s", "u", "n">>, Dog >>
    /\ h[1].doc.labels = << Dog, <<"p", "a", "r", "k">>, <<"s", "u", "n">> >>

-----------------------------------------------------------------------------
(* The identity of a document.                                             *)

\* The key of the storage event behind an entry of the log, as delivered.
RawKeyOf(e) == h[e.inv].event[e.rec].key

PathPrefix == <<"/", "p", "h", "o", "t", "o", "s", "/", "_", "d", "o", "c", "/">>

IdOf(path) == SubSeq(path, Len(PathPrefix) + 1, Len(path))

\* C17: document identity. For every record whose upsert was issued, the
\* object key is the percent-decoding of the event key with '+' read as a
\* space; the path is /photos/_doc/{id}, where id has no '/' and decodes
\* back to the object key; and two records have the same path exactly when
\* their object keys are equal.
C17_DocumentIdentity ==
    /\ \A n \in DOMAIN log :
         LET raw == RawKeyOf(log[n])
             key == log[n].doc.objectKey
             path == log[n].path
         IN  /\ key = Unquote([i \in DOMAIN raw |-> IF raw[i] = "+" THEN " " ELSE raw[i]])
             /\ Len(path) >= Len(PathPrefix)
             /\ SubSeq(path, 1, Len(PathPrefix)) = PathPrefix
             /\ \A i \in DOMAIN IdOf(path) : IdOf(path)[i] # "/"
             /\ Unquote(IdOf(path)) = key
    /\ \A n \in DOMAIN log : \A m \in DOMAIN log :
         (log[n].path = log[m].path) <=> (log[n].doc.objectKey = log[m].doc.objectKey)

\* C17, its case: the event keys "+" and "%20" of one batch were both
\* upserted; they are the one document " " at /photos/_doc/%20.
C17_Witness_SameDocument ==
    /\ Len(log) = 2
    /\ log[1].ok /\ log[2].ok
    /\ RawKeyOf(log[1]) = <<"+">>
    /\ RawKeyOf(log[2]) = <<"%", "2", "0">>
    /\ log[1].doc.objectKey = <<" ">>
    /\ log[2].doc.objectKey = <<" ">>
    /\ log[1].path = PathPrefix \o <<"%", "2", "0">>
    /\ log[2].path = log[1].path
    /\ DOMAIN index = {log[1].path}

\* Keys that differ only after decoding once are different documents: the
\* event key "%252F" is the object "%2F", not the object "/".
C17_Witness_DistinctDocuments ==
    /\ Len(log) = 2
    /\ RawKeyOf(log[1]) = <<"%", "2", "5", "2", "F">>
    /\ RawKeyOf(log[2]) = <<"%", "2", "F">>
    /\ log[1].doc.objectKey = <<"%", "2", "F">>
    /\ log[2].doc.objectKey = <<"/">>
    /\ log[1].path = PathPrefix \o <<"%", "2", "5", "2", "F">>
    /\ log[2].path = PathPrefix \o <<"%", "2", "F">>

-----------------------------------------------------------------------------
(* The order of the records of a batch.                                    *)

\* The upserts an invocation has issued, oldest first.
IssuedBy(v) == SelectSeq(log, LAMBDA e : e.inv = v)

\* C18: sequential batch processing. The upserts of an invocation are those
\* of its records in batch order, one each; while record i is being
\* processed (its label calls made, its PUT not yet answered) the upserts of
\* the i-1 records before it have all completed or failed and none of a
\* later record has been issued; so when a batch holds a key twice and both
\* upserts succeed, the index holds the document of the later record.
C18_SequentialBatch ==
    \A v \in Invocations :
        /\ \A k \in DOMAIN IssuedBy(v) : IssuedBy(v)[k].rec = k
        /\ h[v].pc \in {"loop", "put"} => Len(IssuedBy(v)) = h[v].i - 1
        /\ h[v].pc = "done" => Len(IssuedBy(v)) = Len(h[v].event)
        /\ \A k \in DOMAIN IssuedBy(v) : \A l \in DOMAIN IssuedBy(v) :
             ( /\ k < l
               /\ IssuedBy(v)[k].ok /\ IssuedBy(v)[l].ok
               /\ IssuedBy(v)[k].path = IssuedBy(v)[l].path
               /\ h[v].pc = "done" /\ l = Len(IssuedBy(v)) )
                 => index[IssuedBy(v)[l].path] = IssuedBy(v)[l].doc

\* C18, its case: a batch with the event keys "a+b.jpg" and "a%20b.jpg", the
\* same object; both upserts succeeded and the index holds the document of
\* the second record, stamped later than the first.
C18_Witness_SameKeyTwice ==
    /\ h[1].pc = "done"
    /\ Len(h[1].event) = 2
    /\ h[1].event[1].key # h[1].event[2].key
    /\ Len(log) = 2
    /\ log[1].ok /\ log[2].ok
    /\ log[1].rec = 1 /\ log[2].rec = 2
    /\ log[1].path = log[2].path
    /\ log[1].doc.createdTimestamp < log[2].doc.createdTimestamp
    /\ log[1].doc.labels # log[2].doc.labels
    /\ index[log[2].path] = log[2].doc

-----------------------------------------------------------------------------
(* Buckets and the identity of a document.                                 *)

\* C20: the document identifier does not depend on the bucket. Records with
\* the same object key have the same path whatever their buckets; the index
\* never holds two documents with one object key; and the document of a key
\* carries the bucket of the record whose upsert succeeded last.
C20_IdIgnoresBucket ==
    /\ \A n \in DOMAIN log : \A m \in DOMAIN log :
         log[n].doc.objectKey = log[m].doc.objectKey => log[n].path = log[m].path
    /\ \A p \in DOMAIN index : \A q \in DOMAIN index :
         index[p].objectKey = index[q].objectKey => p = q
    /\ \A p \in DOMAIN index :
         /\ Applied(p) # <<>>
         /\ index[p].bucket = Applied(p)[Len(Applied(p))].doc.bucket

\* C20, its case: the key "a b.jpg" was ingested from bucket b1 and then
\* from bucket b2; the index holds one document, of bucket b2.
C20_Witness_TwoBuckets ==
    /\ Len(log) = 2
    /\ log[1].ok /\ log[2].ok
    /\ log[1].doc.objectKey = PhotoKey /\ log[2].doc.objectKey = PhotoKey
    /\ log[1].doc.bucket = Bucket1
    /\ log[2].doc.bucket = Bucket2
    /\ DOMAIN index = {log[1].path}
    /\ index[log[1].path].bucket = Bucket2

====
